---------------------------- MODULE Spec2Model ----------------------------
(***************************************************************************)
(* Day 15 (src/d15/src/main.rs): the turn-based combat simulator.          *)
(*                                                                         *)
(* The model follows the program text: Board::from_bytes builds the board  *)
(* from the input bytes, Board::next_round runs one round turn by turn,    *)
(* Board::bfs_step plans one step with a FIFO horizon, and main runs the   *)
(* unboosted battle and then the sweep over the Elf attack power.          *)
(*                                                                         *)
(* Positions are indices into the tile vector (row * width + column), so   *)
(* the order of positions as numbers is reading order.                     *)
(***************************************************************************)
EXTENDS Integers, Sequences, FiniteSets, TLC

VARIABLES
    input,        \* the bytes main reads from stdin
    orig_board,   \* main: orig_board (line 260)
    board1,       \* main: the outer `board` of the unboosted battle (line 262)
    board2,       \* main: the inner `board` of the current sweep run (line 270)
    phase,        \* main's position: "part1", "sweep", "done"
    pc,           \* position inside the call of next_round: "call", "loop", "returned"
    order,        \* next_round: the snapshot `units` of (pos, id) pairs (line 161)
    idx,          \* next_round: index of the snapshot entry the for loop is at
    ret,          \* the value next_round returned ("none" while it runs)
    i,            \* main: the round counter `i` of the running battle
    attack,       \* main: the sweep variable `attack` (3 during the unboosted battle)
    out,          \* what main printed so far
    round_start,  \* history: self.units as it was when the snapshot was taken
    acted,        \* history: ids of the units that took a turn in this round, in order
    bfs_src,      \* SpecBfs: the src argument of bfs_step
    bfs_dst,      \* SpecBfs: the dst argument of bfs_step
    bfs_ret,      \* SpecBfs: whether bfs_step was called, and what it returned
    twin          \* SpecTwin: two battles run side by side from one board

vars == <<input, orig_board, board1, board2, phase, pc, order, idx, ret, i,
          attack, out, round_start, acted, bfs_src, bfs_dst, bfs_ret, twin>>

---------------------------------------------------------------------------
(* Bounds of the model.                                                    *)

\* Rounds after which a battle that has not ended is no longer followed.
MaxRounds == 110

\* Largest Elf attack power the sweep is followed to.
MaxAttack == 20

\* Units placed in MapRoom.
RoomUnits == 3

\* SpecBfs: how many Goblins and extra walls are placed in the arena.
BfsEnemies == 2
BfsWalls == 1

\* SpecTwin: units placed in MapRoom, and the largest Elf attack power.
TwinUnits == 2
TwinAttack == 4

\* SpecParse: the largest number of input bytes.
MaxInputLen == 6

---------------------------------------------------------------------------
(* Program constants.                                                      *)

\* hp of a parsed unit (line 62)
StartHp == 200
\* attack of a parsed unit and of every Goblin (lines 63, 155)
BaseAttack == 3
\* first attack power of the sweep (line 269)
FirstSweepAttack == 4
\* usize::MAX, the "not reached" distance (lines 109-110).  TLC's integers
\* are 32 bits wide; the largest of them stands for the largest usize, and
\* no distance on a board of the model comes near either.
UsizeMax == 2147483647

Tiles == {"Wall", "Open", "Unit"}
UnitKinds == {"Goblin", "Elf"}

\* derive(PartialOrd, Ord) on UnitKind: Goblin < Elf (lines 17-21)
KindRank(kind) == IF kind = "Goblin" THEN 0 ELSE 1

---------------------------------------------------------------------------
(* Vec and BTreeMap helpers.  A Vec is a function on 0..len-1; a BTreeMap  *)
(* is a function on its key set, iterated in increasing key order.         *)

VecLen(v) == Cardinality(DOMAIN v)

VecPush(v, x) ==
    [k \in 0..VecLen(v) |-> IF k = VecLen(v) THEN x ELSE v[k]]

EmptyVec == [k \in {} |-> 0]

MapInsert(m, key, val) ==
    [k \in (DOMAIN m) \cup {key} |-> IF k = key THEN val ELSE m[k]]

MapRemove(m, key) == [k \in (DOMAIN m) \ {key} |-> m[k]]

SetMin(S) == CHOOSE x \in S : \A y \in S : x <= y

\* The elements of a set of numbers as an increasing sequence: the order
\* BTreeMap::keys iterates in, and what sort() + dedup() leave of a Vec.
RECURSIVE SortedSeq(_)
SortedSeq(S) ==
    IF S = {} THEN <<>>
    ELSE <<SetMin(S)>> \o SortedSeq(S \ {SetMin(S)})

SeqSet(s) == {s[k] : k \in 1..Len(s)}

Contains(s, x) == \E k \in 1..Len(s) : s[k] = x

---------------------------------------------------------------------------
(* Board::from_bytes (lines 41-84).                                        *)

NewUnit(byte, id) ==
    [hp |-> StartHp, attack |-> BaseAttack,
     kind |-> IF byte = "E" THEN "Elf" ELSE "Goblin", id |-> id]

\* One iteration of `for byte in bytes` on the parser state
\* st = [tiles, units, width, err].
from_bytes_step(st, byte) ==
    IF byte = "\n" THEN
        IF st.width = 0 THEN [st EXCEPT !.width = VecLen(st.tiles)]
        ELSE IF VecLen(st.tiles) % st.width # 0
             THEN [st EXCEPT !.err = "non-rectangular input"]
             ELSE st
    ELSE IF byte = "#" THEN [st EXCEPT !.tiles = VecPush(st.tiles, "Wall")]
    ELSE IF byte = "." THEN [st EXCEPT !.tiles = VecPush(st.tiles, "Open")]
    ELSE IF byte \in {"E", "G"} THEN
        [st EXCEPT !.units = MapInsert(st.units, VecLen(st.tiles),
                                       NewUnit(byte, Cardinality(DOMAIN st.units))),
                   !.tiles = VecPush(st.tiles, "Unit")]
    ELSE [st EXCEPT !.err = "invalid byte"]

RECURSIVE from_bytes_loop(_, _)
from_bytes_loop(st, bytes) ==
    IF bytes = <<>> \/ st.err # "" THEN st
    ELSE from_bytes_loop(from_bytes_step(st, Head(bytes)), Tail(bytes))

\* [ok, err, board]: Ok(Board {..}) or Err(..)
from_bytes(bytes) ==
    LET st == from_bytes_loop([tiles |-> EmptyVec, units |-> EmptyVec,
                               width |-> 0, err |-> ""], bytes)
    IN  [ok |-> st.err = "", err |-> st.err,
         board |-> [tiles |-> st.tiles, units |-> st.units, width |-> st.width,
                    elf_attack |-> BaseAttack, elf_casualty |-> FALSE]]

---------------------------------------------------------------------------
(* Board::neighbors, open_neighbors, enemy_neighbors (lines 86-106).       *)

\* neighbors with the last entry mistyped: pos + 1 for pos + width
neighbors_no_down(b, pos) == <<pos - b.width, pos - 1, pos + 1, pos + 1>>

\* up, left, right, down
neighbors(b, pos) == <<pos - b.width, pos - 1, pos + 1, pos + b.width>>

open_neighbors(b, pos) ==
    SelectSeq(neighbors(b, pos), LAMBDA p : b.tiles[p] = "Open")

enemy_neighbors(b, pos, kind) ==
    SelectSeq(neighbors(b, pos),
              LAMBDA p : p \in DOMAIN b.units /\ b.units[p].kind # kind)

---------------------------------------------------------------------------
(* Board::bfs_step (lines 108-151).  Its outcome is a record: None,        *)
(* Some(p), or the panic of an unwrap() or an index out of range.          *)

None == [tag |-> "None", val |-> 0]
Some(p) == [tag |-> "Some", val |-> p]
Panic == [tag |-> "Panic", val |-> 0]

\* bfs_loop that breaks at `distance >= max_distance`: it stops at the
\* first destination found and leaves the others at that distance unseen.
RECURSIVE bfs_loop_break_at_equal(_, _, _, _, _)
bfs_loop_break_at_equal(b, dst, distances, max_distance, horizon) ==
    IF horizon = <<>> THEN [distances |-> distances, max_distance |-> max_distance]
    ELSE
        LET distance == Head(horizon)[1]
            pos == Head(horizon)[2]
            rest == Tail(horizon)
        IN  IF distance >= max_distance
            THEN [distances |-> distances, max_distance |-> max_distance]
            ELSE IF distance >= distances[pos]
            THEN bfs_loop_break_at_equal(b, dst, distances, max_distance, rest)
            ELSE
                LET on == open_neighbors(b, pos)
                IN  bfs_loop_break_at_equal(b, dst,
                             [distances EXCEPT ![pos] = distance],
                             IF Contains(dst, pos) THEN distance ELSE max_distance,
                             rest \o [k \in 1..Len(on) |-> <<distance + 1, on[k]>>])

\* The `while let Some((distance, pos)) = horizon.pop_front()` loop
\* (lines 113-128); the result is what the loop leaves in distances and
\* max_distance.
RECURSIVE bfs_loop(_, _, _, _, _)
bfs_loop(b, dst, distances, max_distance, horizon) ==
    IF horizon = <<>> THEN [distances |-> distances, max_distance |-> max_distance]
    ELSE
        LET distance == Head(horizon)[1]
            pos == Head(horizon)[2]
            rest == Tail(horizon)
        IN  IF distance > max_distance
            THEN [distances |-> distances, max_distance |-> max_distance]
            ELSE IF distance >= distances[pos]
            THEN bfs_loop(b, dst, distances, max_distance, rest)
            ELSE
                LET on == open_neighbors(b, pos)
                IN  bfs_loop(b, dst,
                             [distances EXCEPT ![pos] = distance],
                             IF Contains(dst, pos) THEN distance ELSE max_distance,
                             rest \o [k \in 1..Len(on) |-> <<distance + 1, on[k]>>])

\* bfs_position without the filter of line 132: the least destination,
\* whatever its distance.
bfs_position_unfiltered(dst, found) ==
    IF dst = <<>> THEN Panic ELSE Some(SetMin(SeqSet(dst)))

\* The destination chosen at lines 130-134: the least of the destinations
\* whose recorded distance equals max_distance; min() of nothing is None
\* and unwrap() panics on it.
bfs_position(dst, found) ==
    LET nearest == {d \in SeqSet(dst) : found.distances[d] = found.max_distance}
    IN  IF nearest = {} THEN Panic ELSE Some(SetMin(nearest))

RECURSIVE FlatOpenNeighbors(_, _)
FlatOpenNeighbors(b, positions) ==
    IF positions = <<>> THEN <<>>
    ELSE open_neighbors(b, Head(positions)) \o FlatOpenNeighbors(b, Tail(positions))

\* The `while distance > 1` loop (lines 140-149).
RECURSIVE bfs_walk_back(_, _, _, _)
bfs_walk_back(b, distances, positions, distance) ==
    IF distance > 1 THEN
        LET kept == SelectSeq(FlatOpenNeighbors(b, positions),
                              LAMBDA p : distances[p] = distance - 1)
        IN  bfs_walk_back(b, distances, SortedSeq(SeqSet(kept)), distance - 1)
    ELSE positions

\* What bfs_step returns once the destination is chosen (lines 135-150);
\* positions[0] panics on an empty Vec.
bfs_first_step(b, found, position) ==
    IF found.max_distance = UsizeMax THEN None
    ELSE LET positions == bfs_walk_back(b, found.distances, <<position>>,
                                        found.max_distance)
         IN  IF positions = <<>> THEN Panic ELSE Some(positions[1])

bfs_search(b, src, dst) ==
    bfs_loop(b, dst, [p \in DOMAIN b.tiles |-> UsizeMax], UsizeMax, <<<<0, src>>>>)

\* bfs_step that returns the destination itself, the end of the path
\* instead of its first step.
bfs_step_whole_path(b, src, dst) ==
    LET found == bfs_search(b, src, dst)
        position == bfs_position(dst, found)
    IN  IF position.tag = "Panic" THEN Panic
        ELSE IF found.max_distance = UsizeMax THEN None
        ELSE position

\* bfs_step with the walk back started from every nearest destination
\* instead of the one chosen: the first step is the least over all of them.
bfs_step_any_nearest(b, src, dst) ==
    LET found == bfs_search(b, src, dst)
        nearest == SortedSeq({d \in SeqSet(dst) :
                                found.distances[d] = found.max_distance})
    IN  IF nearest = <<>> THEN Panic
        ELSE IF found.max_distance = UsizeMax THEN None
        ELSE LET positions == bfs_walk_back(b, found.distances, nearest,
                                            found.max_distance)
             IN  IF positions = <<>> THEN Panic ELSE Some(positions[1])

bfs_step(b, src, dst) ==
    LET found == bfs_search(b, src, dst)
        position == bfs_position(dst, found)
    IN  IF position.tag = "Panic" THEN Panic
        ELSE bfs_first_step(b, found, position.val)

---------------------------------------------------------------------------
(* Board::attack_for (lines 153-158) and Board::remaining_hp (219-221).    *)

\* attack_for that gives every unit the board's elf_attack.
attack_for_any_kind(b, unit) == b.elf_attack

attack_for(b, unit) ==
    IF unit.kind = "Goblin" THEN BaseAttack ELSE b.elf_attack

RECURSIVE SumHp(_, _)
SumHp(units, keys) ==
    IF keys = {} THEN 0
    ELSE LET k == CHOOSE x \in keys : TRUE
         IN  units[k].hp + SumHp(units, keys \ {k})

remaining_hp(b) == SumHp(b.units, DOMAIN b.units)

---------------------------------------------------------------------------
(* Board::next_round (lines 160-217), one snapshot entry at a time.        *)

\* snapshot in the order the units were created in (by id) instead of the
\* order of the keys.
snapshot_by_id(b) ==
    LET ids == SortedSeq({b.units[p].id : p \in DOMAIN b.units})
    IN  [k \in 1..Len(ids) |->
            <<CHOOSE p \in DOMAIN b.units : b.units[p].id = ids[k], ids[k]>>]

\* line 161: the (pos, id) of every unit, in key order
snapshot(b) ==
    LET keys == SortedSeq(DOMAIN b.units)
    IN  [k \in 1..Len(keys) |-> <<keys[k], b.units[keys[k]].id>>]

\* entry_alive without the comparison of ids: any unit on the entry's
\* position takes the turn.
entry_alive_any_unit(b, entry) == entry[1] \in DOMAIN b.units

\* lines 163-166: the entry is skipped unless a unit with the entry's id
\* stands on the entry's position
entry_alive(b, entry) ==
    entry[1] \in DOMAIN b.units /\ b.units[entry[1]].id = entry[2]

\* enemy_targets that keeps only the enemies with an Open tile next to them.
enemy_targets_in_range(b, kind) ==
    SelectSeq(SortedSeq(DOMAIN b.units),
              LAMBDA p : b.units[p].kind # kind /\ open_neighbors(b, p) # <<>>)

\* lines 169-173: the positions of the units of the other kind
enemy_targets(b, kind) ==
    SelectSeq(SortedSeq(DOMAIN b.units), LAMBDA p : b.units[p].kind # kind)

RECURSIVE FlatNeighbors(_, _)
FlatNeighbors(b, positions) ==
    IF positions = <<>> THEN <<>>
    ELSE neighbors(b, Head(positions)) \o FlatNeighbors(b, Tail(positions))

\* lines 178-184: the Open tiles next to a target, sorted, without duplicates
target_tiles(b, targets) ==
    SortedSeq({p \in SeqSet(FlatNeighbors(b, targets)) : b.tiles[p] = "Open"})

\* move_unit without tiles.swap: the unit is re-keyed, the tiles stay.
move_unit_no_swap(b, pos, next_pos) ==
    [b EXCEPT !.units = MapInsert(MapRemove(@, pos), next_pos, b.units[pos])]

\* lines 191-193: tiles.swap and the re-keying of the unit
move_unit(b, pos, next_pos) ==
    [b EXCEPT !.tiles = [@ EXCEPT ![pos] = b.tiles[next_pos],
                                  ![next_pos] = b.tiles[pos]],
              !.units = MapInsert(MapRemove(@, pos), next_pos, b.units[pos])]

\* move_step that, when bfs_step finds no reachable destination, steps to
\* the first Open neighbour instead of staying.
move_step_wander(b, pos, kind, dst) ==
    IF enemy_neighbors(b, pos, kind) = <<>>
    THEN LET step == bfs_step(b, pos, dst)
         IN  IF step.tag = "None" /\ open_neighbors(b, pos) # <<>>
             THEN Some(open_neighbors(b, pos)[1])
             ELSE step
    ELSE None

\* lines 186-190: the step the unit at pos is to take, None when an enemy
\* is adjacent already (reached only when the `continue` of line 188 is
\* not taken)
move_step(b, pos, kind, dst) ==
    IF enemy_neighbors(b, pos, kind) = <<>> THEN bfs_step(b, pos, dst) ELSE None

\* derive(Ord) on Unit compares hp, attack, kind, id in this order (lines
\* 23-29); the tuple (&Unit, pos) of line 201 compares the unit, then pos.
enemy_key(b, p) ==
    <<b.units[p].hp, b.units[p].attack, KindRank(b.units[p].kind),
      b.units[p].id, p>>

RECURSIVE LexLess(_, _)
LexLess(s, t) ==
    IF s = <<>> \/ t = <<>> THEN s = <<>> /\ t # <<>>
    ELSE IF Head(s) # Head(t) THEN Head(s) < Head(t)
    ELSE LexLess(Tail(s), Tail(t))

\* lines 199-202: the enemy the unit at pos attacks, None if none is adjacent
choose_enemy(b, pos, kind) ==
    LET en == SeqSet(enemy_neighbors(b, pos, kind))
    IN  IF en = {} THEN None
        ELSE Some(CHOOSE p \in en :
                    \A q \in en : q = p \/ LexLess(enemy_key(b, p), enemy_key(b, q)))

\* attack_enemy with `enemy.hp < attack` in the place of `enemy.hp <= attack`:
\* a hit that takes exactly the hp left is not lethal.
attack_enemy_strict(b, pos, enemy_pos) ==
    LET attack_ == attack_for(b, b.units[pos])
        enemy == b.units[enemy_pos]
    IN  IF enemy.hp < attack_
        THEN [b EXCEPT !.elf_casualty = IF enemy.kind = "Elf" THEN TRUE ELSE @,
                       !.tiles = [@ EXCEPT ![enemy_pos] = "Open"],
                       !.units = MapRemove(@, enemy_pos)]
        ELSE [b EXCEPT !.units = [@ EXCEPT ![enemy_pos] =
                                     [enemy EXCEPT !.hp = enemy.hp - attack_]]]

\* attack_enemy with the lethal test against the unboosted attack power 3
\* in the place of the attacker's attack power.
attack_enemy_base_threshold(b, pos, enemy_pos) ==
    LET attack_ == attack_for(b, b.units[pos])
        enemy == b.units[enemy_pos]
    IN  IF enemy.hp <= BaseAttack
        THEN [b EXCEPT !.elf_casualty = IF enemy.kind = "Elf" THEN TRUE ELSE @,
                       !.tiles = [@ EXCEPT ![enemy_pos] = "Open"],
                       !.units = MapRemove(@, enemy_pos)]
        ELSE [b EXCEPT !.units = [@ EXCEPT ![enemy_pos] =
                                     [enemy EXCEPT !.hp = enemy.hp - attack_]]]

\* attack_enemy that clears the tile of a killed unit and leaves its entry
\* in the units map.
attack_enemy_keep_entry(b, pos, enemy_pos) ==
    LET attack_ == attack_for(b, b.units[pos])
        enemy == b.units[enemy_pos]
    IN  IF enemy.hp <= attack_
        THEN [b EXCEPT !.elf_casualty = IF enemy.kind = "Elf" THEN TRUE ELSE @,
                       !.tiles = [@ EXCEPT ![enemy_pos] = "Open"]]
        ELSE [b EXCEPT !.units = [@ EXCEPT ![enemy_pos] =
                                     [enemy EXCEPT !.hp = enemy.hp - attack_]]]

\* attack_enemy that sets elf_casualty at every kill, whatever the kind of
\* the unit killed.
attack_enemy_any_casualty(b, pos, enemy_pos) ==
    LET attack_ == attack_for(b, b.units[pos])
        enemy == b.units[enemy_pos]
    IN  IF enemy.hp <= attack_
        THEN [b EXCEPT !.elf_casualty = TRUE,
                       !.tiles = [@ EXCEPT ![enemy_pos] = "Open"],
                       !.units = MapRemove(@, enemy_pos)]
        ELSE [b EXCEPT !.units = [@ EXCEPT ![enemy_pos] =
                                     [enemy EXCEPT !.hp = enemy.hp - attack_]]]

\* lines 203-214
attack_enemy(b, pos, enemy_pos) ==
    LET attack_ == attack_for(b, b.units[pos])
        enemy == b.units[enemy_pos]
    IN  IF enemy.hp <= attack_
        THEN [b EXCEPT !.elf_casualty = IF enemy.kind = "Elf" THEN TRUE ELSE @,
                       !.tiles = [@ EXCEPT ![enemy_pos] = "Open"],
                       !.units = MapRemove(@, enemy_pos)]
        ELSE [b EXCEPT !.units = [@ EXCEPT ![enemy_pos] =
                                     [enemy EXCEPT !.hp = enemy.hp - attack_]]]

\* lines 198-214: the attack part of the turn of the unit at pos
attack_from(b, pos) ==
    LET enemy == choose_enemy(b, pos, b.units[pos].kind)
    IN  IF enemy.tag = "None" THEN b ELSE attack_enemy(b, pos, enemy.val)

\* take_turn that looks for the enemy to attack around the position the
\* unit had before its move.
take_turn_attack_from_old(b, pos, step) ==
    IF step.tag = "Some"
    THEN LET enemy == choose_enemy(b, pos, b.units[pos].kind)
             moved == move_unit(b, pos, step.val)
         IN  IF enemy.tag = "None" THEN moved
             ELSE attack_enemy(moved, step.val, enemy.val)
    ELSE attack_from(b, pos)

\* take_turn in which a unit that has moved does not attack in that turn.
take_turn_move_or_attack(b, pos, step) ==
    IF step.tag = "Some"
    THEN move_unit(b, pos, step.val)
    ELSE attack_from(b, pos)

\* lines 190-214: the board after the turn of the unit at pos, given the
\* outcome of the move part
take_turn(b, pos, step) ==
    IF step.tag = "Some"
    THEN attack_from(move_unit(b, pos, step.val), step.val)
    ELSE attack_from(b, pos)

---------------------------------------------------------------------------
(* The maps main is run on: the 7x7 sample of the puzzle (MapSample),      *)
(* small maps with two or three units in a corridor or around a corner,    *)
(* maps whose battle never ends (MapSplit, MapEmpty), maps with one        *)
(* faction only, and every placement of a few units in an empty room.      *)

\* MapFlank:
\*   #####
\*   #GEG#
\*   #####
MapFlank ==
    <<"#", "#", "#", "#", "#", "\n">>
    \o <<"#", "G", "E", "G", "#", "\n">>
    \o <<"#", "#", "#", "#", "#", "\n">>

\* MapDuel:
\*   #####
\*   #E.G#
\*   #####
MapDuel ==
    <<"#", "#", "#", "#", "#", "\n">>
    \o <<"#", "E", ".", "G", "#", "\n">>
    \o <<"#", "#", "#", "#", "#", "\n">>

\* MapChain:
\*   #####
\*   #EGG#
\*   #####
MapChain ==
    <<"#", "#", "#", "#", "#", "\n">>
    \o <<"#", "E", "G", "G", "#", "\n">>
    \o <<"#", "#", "#", "#", "#", "\n">>

\* MapCross:
\*   ######
\*   #..#G#
\*   #G.E.#
\*   ######
MapCross ==
    <<"#", "#", "#", "#", "#", "#", "\n">>
    \o <<"#", ".", ".", "#", "G", "#", "\n">>
    \o <<"#", "G", ".", "E", ".", "#", "\n">>
    \o <<"#", "#", "#", "#", "#", "#", "\n">>

\* MapPlug:
\*   ######
\*   #.E###
\*   #EG.G#
\*   ######
MapPlug ==
    <<"#", "#", "#", "#", "#", "#", "\n">>
    \o <<"#", ".", "E", "#", "#", "#", "\n">>
    \o <<"#", "E", "G", ".", "G", "#", "\n">>
    \o <<"#", "#", "#", "#", "#", "#", "\n">>

\* MapSample:
\*   #######
\*   #.G...#
\*   #...EG#
\*   #.#.#G#
\*   #..G#E#
\*   #.....#
\*   #######
MapSample ==
    <<"#", "#", "#", "#", "#", "#", "#", "\n">>
    \o <<"#", ".", "G", ".", ".", ".", "#", "\n">>
    \o <<"#", ".", ".", ".", "E", "G", "#", "\n">>
    \o <<"#", ".", "#", ".", "#", "G", "#", "\n">>
    \o <<"#", ".", ".", "G", "#", "E", "#", "\n">>
    \o <<"#", ".", ".", ".", ".", ".", "#", "\n">>
    \o <<"#", "#", "#", "#", "#", "#", "#", "\n">>

\* MapStep:
\*   #######
\*   #.E...#
\*   #.....#
\*   #...G.#
\*   #######
MapStep ==
    <<"#", "#", "#", "#", "#", "#", "#", "\n">>
    \o <<"#", ".", "E", ".", ".", ".", "#", "\n">>
    \o <<"#", ".", ".", ".", ".", ".", "#", "\n">>
    \o <<"#", ".", ".", ".", "G", ".", "#", "\n">>
    \o <<"#", "#", "#", "#", "#", "#", "#", "\n">>

\* MapSplit:
\*   #####
\*   #E#G#
\*   #####
MapSplit ==
    <<"#", "#", "#", "#", "#", "\n">>
    \o <<"#", "E", "#", "G", "#", "\n">>
    \o <<"#", "#", "#", "#", "#", "\n">>

\* MapEmpty:
\*   #####
\*   #...#
\*   #####
MapEmpty ==
    <<"#", "#", "#", "#", "#", "\n">>
    \o <<"#", ".", ".", ".", "#", "\n">>
    \o <<"#", "#", "#", "#", "#", "\n">>

\* MapElves:
\*   #####
\*   #E.E#
\*   #####
MapElves ==
    <<"#", "#", "#", "#", "#", "\n">>
    \o <<"#", "E", ".", "E", "#", "\n">>
    \o <<"#", "#", "#", "#", "#", "\n">>

\* MapGoblins:
\*   ####
\*   #G.#
\*   ####
MapGoblins ==
    <<"#", "#", "#", "#", "\n">>
    \o <<"#", "G", ".", "#", "\n">>
    \o <<"#", "#", "#", "#", "\n">>

---------------------------------------------------------------------------
(* Generated maps: an arena (a map of walls and Open tiles) with units and *)
(* extra walls put on its Open tiles.                                      *)

\* the byte indices of the Open tiles of an arena
ArenaCells(arena) == {k \in 1..Len(arena) : arena[k] = "."}

\* the arena with the bytes at `elves`, `goblins` and `walls` replaced
Fill(arena, elves, goblins, walls) ==
    [k \in 1..Len(arena) |->
        IF k \in elves THEN "E"
        ELSE IF k \in goblins THEN "G"
        ELSE IF k \in walls THEN "#"
        ELSE arena[k]]

\* the tile index of the byte at k: the bytes before it that are tiles
TileOf(arena, k) == Cardinality({j \in 1..(k - 1) : arena[j] # "\n"})

\* the subsets of S with at most n elements
RECURSIVE SubsetsUpTo(_, _)
SubsetsUpTo(S, n) ==
    IF n = 0 THEN {{}}
    ELSE LET smaller == SubsetsUpTo(S, n - 1)
         IN  smaller \cup {T \cup {x} : T \in smaller, x \in S}

\* MapRoom:
\*   #####
\*   #...#
\*   #...#
\*   #...#
\*   #####
MapRoom ==
    <<"#", "#", "#", "#", "#", "\n">>
    \o <<"#", ".", ".", ".", "#", "\n">>
    \o <<"#", ".", ".", ".", "#", "\n">>
    \o <<"#", ".", ".", ".", "#", "\n">>
    \o <<"#", "#", "#", "#", "#", "\n">>

\* MapRoom with at most RoomUnits units on its Open tiles
RoomInputs ==
    UNION {{Fill(MapRoom, us \ gs, gs, {}) : gs \in SUBSET us} :
           us \in SubsetsUpTo(ArenaCells(MapRoom), RoomUnits)}

Inputs ==
    RoomInputs \cup
    {MapFlank, MapDuel, MapChain, MapCross, MapPlug, MapSample, MapStep,
     MapSplit, MapEmpty, MapElves, MapGoblins}

---------------------------------------------------------------------------
(* main (lines 259-284) around the calls of next_round.                    *)

\* board2 before the sweep declares it
NoBoard ==
    [tiles |-> EmptyVec, units |-> EmptyVec, width |-> 0,
     elf_attack |-> 0, elf_casualty |-> FALSE]

\* the board the running call of next_round works on
Cur == IF phase = "part1" THEN board1 ELSE board2

SetCur(b) ==
    IF phase = "part1"
    THEN board1' = b /\ UNCHANGED board2
    ELSE board2' = b /\ UNCHANGED board1

\* sweep_board that starts from the board of the unboosted battle instead
\* of a clone of orig_board.
sweep_board_shared(a) == [board1 EXCEPT !.elf_attack = a]

\* lines 270-271: orig_board.clone() with board.elf_attack = attack
sweep_board(a) == [orig_board EXCEPT !.elf_attack = a]

Running == phase \in {"part1", "sweep"}

InTurn == Running /\ pc = "loop" /\ idx <= Len(order)

\* the unit the entry at idx names, when entry_alive
TurnPos == order[idx][1]
TurnUnit == Cur.units[TurnPos]
TurnTargets == enemy_targets(Cur, TurnUnit.kind)
TurnDst == target_tiles(Cur, TurnTargets)
TurnStep == move_step(Cur, TurnPos, TurnUnit.kind, TurnDst)

\* a battle of SpecTwin: the board and next_round's and main's position
NoRun ==
    [board |-> NoBoard, order |-> <<>>, idx |-> 1, pc |-> "call",
     ret |-> "none", i |-> 0]

\* twin outside SpecTwin
NoTwin == [a |-> NoRun, b |-> NoRun, ahead |-> FALSE]

\* bfs_ret before bfs_step is called
NotCalled == [called |-> FALSE, position |-> None, step |-> None]

Init ==
    /\ input \in Inputs
    /\ orig_board = from_bytes(input).board
    /\ board1 = orig_board
    /\ board2 = NoBoard
    /\ phase = IF from_bytes(input).ok THEN "part1" ELSE "error"
    /\ pc = "call"
    /\ order = <<>>
    /\ idx = 1
    /\ ret = "none"
    /\ i = 0
    /\ attack = BaseAttack
    /\ out = <<>>
    /\ round_start = EmptyVec
    /\ acted = <<>>
    /\ bfs_src = 0
    /\ bfs_dst = <<>>
    /\ bfs_ret = NotCalled
    /\ twin = NoTwin

BfsUnchanged == UNCHANGED <<bfs_src, bfs_dst, bfs_ret>>

\* line 161: next_round is called and takes the snapshot
Snapshot ==
    /\ Running /\ pc = "call"
    /\ i < MaxRounds
    /\ order' = snapshot(Cur)
    /\ idx' = 1
    /\ pc' = "loop"
    /\ ret' = "none"
    /\ round_start' = Cur.units
    /\ acted' = <<>>
    /\ UNCHANGED <<input, orig_board, board1, board2, phase, i, attack, out>>
    /\ BfsUnchanged
    /\ UNCHANGED twin

\* lines 163-166: the entry's unit is gone, `continue`
TurnSkip ==
    /\ InTurn
    /\ ~entry_alive(Cur, order[idx])
    /\ idx' = idx + 1
    /\ UNCHANGED <<input, orig_board, board1, board2, phase, pc, order, ret, i,
                   attack, out, round_start, acted>>
    /\ BfsUnchanged
    /\ UNCHANGED twin

\* TurnNoTargets with `continue` in the place of `return false`.
TurnNoTargets_continue ==
    /\ InTurn
    /\ entry_alive(Cur, order[idx])
    /\ TurnTargets = <<>>
    /\ idx' = idx + 1
    /\ acted' = Append(acted, TurnUnit.id)
    /\ UNCHANGED <<input, orig_board, board1, board2, phase, pc, order, ret, i,
                   attack, out, round_start>>
    /\ BfsUnchanged
    /\ UNCHANGED twin

\* lines 169-176: no unit of the other kind is left, `return false`
TurnNoTargets ==
    /\ InTurn
    /\ entry_alive(Cur, order[idx])
    /\ TurnTargets = <<>>
    /\ pc' = "returned"
    /\ ret' = FALSE
    /\ acted' = Append(acted, TurnUnit.id)
    /\ UNCHANGED <<input, orig_board, board1, board2, phase, order, idx, i,
                   attack, out, round_start>>
    /\ BfsUnchanged
    /\ UNCHANGED twin

\* TurnIdle without the `continue` of lines 187-189: bfs_step is called
\* with the empty dst, and its min().unwrap() panics.
TurnIdle_no_continue ==
    /\ InTurn
    /\ entry_alive(Cur, order[idx])
    /\ TurnTargets # <<>>
    /\ enemy_neighbors(Cur, TurnPos, TurnUnit.kind) = <<>>
    /\ TurnDst = <<>>
    /\ IF TurnStep.tag = "Panic"
       THEN phase' = "panic" /\ UNCHANGED <<board1, board2>>
       ELSE phase' = phase /\ SetCur(take_turn(Cur, TurnPos, TurnStep))
    /\ idx' = idx + 1
    /\ acted' = Append(acted, TurnUnit.id)
    /\ UNCHANGED <<input, orig_board, pc, order, ret, i, attack, out,
                   round_start>>
    /\ BfsUnchanged
    /\ UNCHANGED twin

\* lines 186-189: no enemy adjacent and no Open tile next to one, `continue`
TurnIdle ==
    /\ InTurn
    /\ entry_alive(Cur, order[idx])
    /\ TurnTargets # <<>>
    /\ enemy_neighbors(Cur, TurnPos, TurnUnit.kind) = <<>>
    /\ TurnDst = <<>>
    /\ idx' = idx + 1
    /\ acted' = Append(acted, TurnUnit.id)
    /\ UNCHANGED <<input, orig_board, board1, board2, phase, pc, order, ret, i,
                   attack, out, round_start>>
    /\ BfsUnchanged
    /\ UNCHANGED twin

\* lines 186-214: the unit moves if no enemy is adjacent and a step is
\* found, then attacks if an enemy is adjacent; a panic inside bfs_step
\* ends the program
TurnAct ==
    /\ InTurn
    /\ entry_alive(Cur, order[idx])
    /\ TurnTargets # <<>>
    /\ ~(enemy_neighbors(Cur, TurnPos, TurnUnit.kind) = <<>> /\ TurnDst = <<>>)
    /\ IF TurnStep.tag = "Panic"
       THEN phase' = "panic" /\ UNCHANGED <<board1, board2>>
       ELSE phase' = phase /\ SetCur(take_turn(Cur, TurnPos, TurnStep))
    /\ idx' = idx + 1
    /\ acted' = Append(acted, TurnUnit.id)
    /\ UNCHANGED <<input, orig_board, pc, order, ret, i, attack, out,
                   round_start>>
    /\ BfsUnchanged
    /\ UNCHANGED twin

\* RoundDone that looks for the end of the battle when the for loop is
\* over, and returns false if one faction is gone.
RoundDone_detects_end ==
    /\ Running /\ pc = "loop"
    /\ idx > Len(order)
    /\ pc' = "returned"
    /\ ret' = (\E p, q \in DOMAIN Cur.units : Cur.units[p].kind # Cur.units[q].kind)
    /\ UNCHANGED <<input, orig_board, board1, board2, phase, order, idx, i,
                   attack, out, round_start, acted>>
    /\ BfsUnchanged
    /\ UNCHANGED twin

\* line 216: the for loop is over, `true`
RoundDone ==
    /\ Running /\ pc = "loop"
    /\ idx > Len(order)
    /\ pc' = "returned"
    /\ ret' = TRUE
    /\ UNCHANGED <<input, orig_board, board1, board2, phase, order, idx, i,
                   attack, out, round_start, acted>>
    /\ BfsUnchanged
    /\ UNCHANGED twin

\* lines 264-266: the unboosted battle counts the round and calls again
Part1Counted ==
    /\ phase = "part1" /\ pc = "returned" /\ ret = TRUE
    /\ i' = i + 1
    /\ pc' = "call"
    /\ ret' = "none"
    /\ UNCHANGED <<input, orig_board, board1, board2, phase, order, idx,
                   attack, out, round_start, acted>>
    /\ BfsUnchanged
    /\ UNCHANGED twin

\* Part1Print that counts the round next_round returned false from.
Part1Print_counts_last ==
    /\ phase = "part1" /\ pc = "returned" /\ ret = FALSE
    /\ out' = Append(out, (i + 1) * remaining_hp(board1))
    /\ phase' = "sweep"
    /\ attack' = FirstSweepAttack
    /\ board2' = sweep_board(FirstSweepAttack)
    /\ i' = 0
    /\ pc' = "call"
    /\ ret' = "none"
    /\ UNCHANGED <<input, orig_board, board1, order, idx, round_start, acted>>
    /\ BfsUnchanged
    /\ UNCHANGED twin

\* lines 267-272: the unboosted score is printed and the sweep starts
Part1Print ==
    /\ phase = "part1" /\ pc = "returned" /\ ret = FALSE
    /\ out' = Append(out, i * remaining_hp(board1))
    /\ phase' = "sweep"
    /\ attack' = FirstSweepAttack
    /\ board2' = sweep_board(FirstSweepAttack)
    /\ i' = 0
    /\ pc' = "call"
    /\ ret' = "none"
    /\ UNCHANGED <<input, orig_board, board1, order, idx, round_start, acted>>
    /\ BfsUnchanged
    /\ UNCHANGED twin

\* lines 273-277: a round of a sweep run ended without an Elf casualty
SweepCounted ==
    /\ phase = "sweep" /\ pc = "returned" /\ ret = TRUE
    /\ ~board2.elf_casualty
    /\ i' = i + 1
    /\ pc' = "call"
    /\ ret' = "none"
    /\ UNCHANGED <<input, orig_board, board1, board2, phase, order, idx,
                   attack, out, round_start, acted>>
    /\ BfsUnchanged
    /\ UNCHANGED twin

\* SweepCasualty that gives the run up as soon as any unit has died in it.
SweepCasualty_any_death ==
    /\ phase = "sweep" /\ pc = "returned" /\ ret = TRUE
    /\ Cardinality(DOMAIN board2.units) < Cardinality(DOMAIN orig_board.units)
    /\ attack < MaxAttack
    /\ attack' = attack + 1
    /\ board2' = sweep_board(attack + 1)
    /\ i' = 0
    /\ pc' = "call"
    /\ ret' = "none"
    /\ UNCHANGED <<input, orig_board, board1, phase, order, idx, out,
                   round_start, acted>>
    /\ BfsUnchanged
    /\ UNCHANGED twin

\* lines 274-276 and 269-272: `continue 'outer`, the next attack power
SweepCasualty ==
    /\ phase = "sweep" /\ pc = "returned" /\ ret = TRUE
    /\ board2.elf_casualty
    /\ attack < MaxAttack
    /\ attack' = attack + 1
    /\ board2' = sweep_board(attack + 1)
    /\ i' = 0
    /\ pc' = "call"
    /\ ret' = "none"
    /\ UNCHANGED <<input, orig_board, board1, phase, order, idx, out,
                   round_start, acted>>
    /\ BfsUnchanged
    /\ UNCHANGED twin

\* lines 279-280: the sweep prints the score and stops
SweepPrint ==
    /\ phase = "sweep" /\ pc = "returned" /\ ret = FALSE
    /\ out' = Append(out, i * remaining_hp(board2))
    /\ phase' = "done"
    /\ UNCHANGED <<input, orig_board, board1, board2, pc, order, idx, ret, i,
                   attack, round_start, acted>>
    /\ BfsUnchanged
    /\ UNCHANGED twin

Next ==
    \/ Snapshot
    \/ TurnSkip
    \/ TurnNoTargets
    \/ TurnIdle
    \/ TurnAct
    \/ RoundDone
    \/ Part1Counted
    \/ Part1Print
    \/ SweepCounted
    \/ SweepCasualty
    \/ SweepPrint

Spec == Init /\ [][Next]_vars

---------------------------------------------------------------------------
(* bfs_step on its own: the grids a call can see.  An arena is filled      *)
(* with one Elf (the unit that is to move), Goblins and extra walls, and   *)
(* parsed by from_bytes; dst is built as next_round builds it.  As in      *)
(* next_round, the call is made only when no enemy is adjacent to src and  *)
(* dst is not empty.                                                       *)

\* BfsRoom:
\*   ######
\*   #....#
\*   #....#
\*   #....#
\*   ######
BfsRoom ==
    <<"#", "#", "#", "#", "#", "#", "\n">>
    \o <<"#", ".", ".", ".", ".", "#", "\n">>
    \o <<"#", ".", ".", ".", ".", "#", "\n">>
    \o <<"#", ".", ".", ".", ".", "#", "\n">>
    \o <<"#", "#", "#", "#", "#", "#", "\n">>

\* BfsCorridor:
\*   ########
\*   #......#
\*   ########
BfsCorridor ==
    <<"#", "#", "#", "#", "#", "#", "#", "#", "\n">>
    \o <<"#", ".", ".", ".", ".", ".", ".", "#", "\n">>
    \o <<"#", "#", "#", "#", "#", "#", "#", "#", "\n">>

BfsArenas == {BfsRoom, BfsCorridor}

InitBfs ==
    /\ \E arena \in BfsArenas :
       \E s \in ArenaCells(arena) :
       \E gs \in SubsetsUpTo(ArenaCells(arena) \ {s}, BfsEnemies) \ {{}} :
       \E ws \in SubsetsUpTo(ArenaCells(arena) \ ({s} \cup gs), BfsWalls) :
        /\ input = Fill(arena, {s}, gs, ws)
        /\ bfs_src = TileOf(arena, s)
    /\ orig_board = from_bytes(input).board
    /\ board1 = orig_board
    /\ bfs_dst = target_tiles(board1, enemy_targets(board1, "Elf"))
    /\ enemy_neighbors(board1, bfs_src, "Elf") = <<>>
    /\ bfs_dst # <<>>
    /\ bfs_ret = NotCalled
    /\ board2 = NoBoard
    /\ phase = "bfs"
    /\ pc = "call"
    /\ order = <<>>
    /\ idx = 1
    /\ ret = "none"
    /\ i = 0
    /\ attack = BaseAttack
    /\ out = <<>>
    /\ round_start = EmptyVec
    /\ acted = <<>>
    /\ twin = NoTwin

\* bfs_step(src, dst) is called; the destination it chose (lines 130-134)
\* is kept beside the step it returned
BfsCall ==
    /\ phase = "bfs" /\ ~bfs_ret.called
    /\ bfs_ret' = [called |-> TRUE,
                   position |-> bfs_position(bfs_dst, bfs_search(board1, bfs_src, bfs_dst)),
                   step |-> bfs_step(board1, bfs_src, bfs_dst)]
    /\ UNCHANGED <<input, orig_board, board1, board2, phase, pc, order, idx, ret,
                   i, attack, out, round_start, acted, bfs_src, bfs_dst, twin>>

NextBfs == BfsCall

SpecBfs == InitBfs /\ [][NextBfs]_vars

---------------------------------------------------------------------------
(* SpecTwin: the loop `while board.next_round() { i += 1; }` (lines        *)
(* 264-266) run twice from one board with one Elf attack power, the two    *)
(* battles taking their steps in turn.  A battle is a record of its board, *)
(* the snapshot and index of the running call, what the call returned      *)
(* ("true", "false", "none" while it runs) and the round counter.          *)

\* line 161: next_round is called and takes the snapshot
run_call(run) ==
    [run EXCEPT !.order = snapshot(run.board), !.idx = 1, !.pc = "loop",
                !.ret = "none"]

\* lines 162-216: the for loop at the snapshot entry idx, or its end
run_turn(run) ==
    IF run.idx > Len(run.order)
    THEN [run EXCEPT !.pc = "returned", !.ret = "true"]
    ELSE IF ~entry_alive(run.board, run.order[run.idx])
    THEN [run EXCEPT !.idx = @ + 1]
    ELSE
        LET pos == run.order[run.idx][1]
            kind == run.board.units[pos].kind
            targets == enemy_targets(run.board, kind)
            dst == target_tiles(run.board, targets)
            step == move_step(run.board, pos, kind, dst)
        IN  IF targets = <<>>
            THEN [run EXCEPT !.pc = "returned", !.ret = "false"]
            ELSE IF enemy_neighbors(run.board, pos, kind) = <<>> /\ dst = <<>>
            THEN [run EXCEPT !.idx = @ + 1]
            ELSE IF step.tag = "Panic"
            THEN [run EXCEPT !.pc = "panic"]
            ELSE [run EXCEPT !.board = take_turn(run.board, pos, step),
                             !.idx = @ + 1]

\* lines 264-266: a round that returned true is counted, and next_round is
\* called again
run_counted(run) == [run EXCEPT !.i = @ + 1, !.pc = "call", !.ret = "none"]

\* next_round_states with the snapshot taken in any order of the units
\* (as from a map that has no order of its keys).
next_round_states_any_order(run) ==
    IF run.pc = "call"
    THEN IF run.i < MaxRounds
         THEN LET snap == snapshot(run.board)
              IN  {[run_call(run) EXCEPT !.order = [k \in 1..Len(snap) |-> snap[p[k]]]] :
                     p \in Permutations(1..Len(snap))}
         ELSE {}
    ELSE IF run.pc = "loop" THEN {run_turn(run)}
    ELSE IF run.pc = "returned" /\ run.ret = "true" THEN {run_counted(run)}
    ELSE {}

\* the states a battle can be in after its next step (lines 160-217 and
\* 264-266): none when the loop of main has ended or the program panicked
next_round_states(run) ==
    IF run.pc = "call"
    THEN IF run.i < MaxRounds THEN {run_call(run)} ELSE {}
    ELSE IF run.pc = "loop" THEN {run_turn(run)}
    ELSE IF run.pc = "returned" /\ run.ret = "true" THEN {run_counted(run)}
    ELSE {}

\* the maps of SpecTwin: the maps with a name, and MapRoom with at most
\* TwinUnits units
TwinInputs ==
    {MapFlank, MapDuel, MapChain, MapCross, MapPlug, MapSample, MapStep,
     MapSplit, MapEmpty, MapElves, MapGoblins}
    \cup UNION {{Fill(MapRoom, us \ gs, gs, {}) : gs \in SUBSET us} :
                 us \in SubsetsUpTo(ArenaCells(MapRoom), TwinUnits)}

InitTwin ==
    /\ input \in TwinInputs
    /\ attack \in BaseAttack..TwinAttack
    /\ orig_board = from_bytes(input).board
    /\ twin = LET start == [NoRun EXCEPT !.board = sweep_board(attack)]
              IN  [a |-> start, b |-> start, ahead |-> FALSE]
    /\ board1 = orig_board
    /\ board2 = NoBoard
    /\ phase = "twin"
    /\ pc = "call"
    /\ order = <<>>
    /\ idx = 1
    /\ ret = "none"
    /\ i = 0
    /\ out = <<>>
    /\ round_start = EmptyVec
    /\ acted = <<>>
    /\ bfs_src = 0
    /\ bfs_dst = <<>>
    /\ bfs_ret = NotCalled

TwinUnchanged ==
    UNCHANGED <<input, orig_board, board1, board2, phase, pc, order, idx, ret,
                i, attack, out, round_start, acted, bfs_src, bfs_dst, bfs_ret>>

\* the first battle takes a step
TwinStepA ==
    /\ phase = "twin" /\ ~twin.ahead
    /\ \E run \in next_round_states(twin.a) :
        twin' = [twin EXCEPT !.a = run, !.ahead = TRUE]
    /\ TwinUnchanged

\* the second battle takes the same step of its own
TwinStepB ==
    /\ phase = "twin" /\ twin.ahead
    /\ \E run \in next_round_states(twin.b) :
        twin' = [twin EXCEPT !.b = run, !.ahead = FALSE]
    /\ TwinUnchanged

NextTwin == TwinStepA \/ TwinStepB

SpecTwin == InitTwin /\ [][NextTwin]_vars

---------------------------------------------------------------------------
(* SpecParse: main on any bytes: Board::from_bytes (line 260), and, when   *)
(* it returned Ok, the tile reads of the first turn of the first round.    *)

\* the bytes of the inputs: the four tiles, the newline and a byte that is
\* none of them
ParseBytes == {"#", ".", "E", "G", "\n", "x"}

InitParse ==
    /\ \E n \in 0..MaxInputLen : input \in [1..n -> ParseBytes]
    /\ phase = "start"
    /\ orig_board = NoBoard
    /\ board1 = NoBoard
    /\ board2 = NoBoard
    /\ pc = "call"
    /\ order = <<>>
    /\ idx = 1
    /\ ret = "none"
    /\ i = 0
    /\ attack = BaseAttack
    /\ out = <<>>
    /\ round_start = EmptyVec
    /\ acted = <<>>
    /\ bfs_src = 0
    /\ bfs_dst = <<>>
    /\ bfs_ret = NotCalled
    /\ twin = NoTwin

ParseUnchanged ==
    UNCHANGED <<input, board2, pc, order, idx, ret, i, attack, out, round_start,
                acted, bfs_src, bfs_dst, bfs_ret, twin>>

\* lines 260-262: `Board::from_bytes(..)?` ends main on Err; on Ok the
\* board is kept and cloned
ParseCall ==
    /\ phase = "start"
    /\ LET parsed == from_bytes(input)
       IN  IF parsed.ok
           THEN /\ phase' = "parsed"
                /\ orig_board' = parsed.board
                /\ board1' = parsed.board
           ELSE /\ phase' = "error"
                /\ UNCHANGED <<orig_board, board1>>
    /\ ParseUnchanged

\* the tile indices the first living unit of the first round reads at
\* lines 178-182: the neighbours of every target
first_reads(b) ==
    LET pos == SetMin(DOMAIN b.units)
    IN  SeqSet(FlatNeighbors(b, enemy_targets(b, b.units[pos].kind)))

\* how the first turn of the first round gets past lines 169-186.
\* `tiles[p]` panics on an index outside the vector, whether the index is
\* too large or comes from a usize subtraction below 0 (which panics in a
\* build with overflow checks and wraps to an index far outside without).
\* enemy_neighbors (line 186) looks its neighbours up in the units map, so
\* there only the subtraction can panic, and only with overflow checks.
first_turn_outcomes(b) ==
    IF DOMAIN b.units = {} THEN {"running"}
    ELSE LET pos == SetMin(DOMAIN b.units)
         IN  IF enemy_targets(b, b.units[pos].kind) = <<>> THEN {"running"}
             ELSE IF ~(first_reads(b) \subseteq DOMAIN b.tiles) THEN {"panic"}
             ELSE IF \E p \in SeqSet(neighbors(b, pos)) : p < 0
             THEN {"panic", "running"}
             ELSE {"running"}

\* lines 160-186: next_round is called on the parsed board
FirstTurn ==
    /\ phase = "parsed"
    /\ phase' \in first_turn_outcomes(board1)
    /\ UNCHANGED <<orig_board, board1>>
    /\ ParseUnchanged

NextParse == ParseCall \/ FirstTurn

SpecParse == InitParse /\ [][NextParse]_vars

---------------------------------------------------------------------------
(* Shortest paths stated without the search of bfs_step: 4-adjacency from  *)
(* rows and columns, distances by whole levels.                            *)

RowOf(b, p) == p \div b.width
ColOf(b, p) == p % b.width

Adjacent4(b, p, q) ==
    \/ RowOf(b, p) = RowOf(b, q) /\ (ColOf(b, p) - ColOf(b, q)) \in {-1, 1}
    \/ ColOf(b, p) = ColOf(b, q) /\ (RowOf(b, p) - RowOf(b, q)) \in {-1, 1}

OpenTiles(b) == {p \in DOMAIN b.tiles : b.tiles[p] = "Open"}

\* the tiles at distance d, d + 1, ... from the start, each mapped to its
\* distance, when `level` holds the tiles at distance d
RECURSIVE LevelDist(_, _, _, _)
LevelDist(b, level, seen, d) ==
    IF level = {} THEN [p \in {} |-> 0]
    ELSE LET next == {q \in OpenTiles(b) \ seen : \E p \in level : Adjacent4(b, p, q)}
         IN  [p \in level |-> d] @@ LevelDist(b, next, seen \cup next, d + 1)

\* shortest-path distance from p over Open tiles, for every tile that has one
DistFrom(b, p) == LevelDist(b, {p}, {p}, 0)

\* the destinations nearest to src, empty when none is reachable
NearestDst(b, src, dst) ==
    LET dist == DistFrom(b, src)
        reach == SeqSet(dst) \cap DOMAIN dist
    IN  {d \in reach : \A e \in reach : dist[d] <= dist[e]}

\* the Open neighbours of src on some shortest path from src to dest
FirstSteps(b, src, dest) ==
    LET back == DistFrom(b, dest)
        total == DistFrom(b, src)[dest]
    IN  {n \in OpenTiles(b) :
            Adjacent4(b, src, n) /\ n \in DOMAIN back /\ back[n] = total - 1}

BfsNearest == NearestDst(board1, bfs_src, bfs_dst)

---------------------------------------------------------------------------
(* C7 - C9: bfs_step.                                                      *)

\* C7: when some destination is reachable from src, the destination
\* bfs_step heads for is the least in reading order among the reachable
\* destinations at the least shortest-path distance from src.
C7_NearestDestination ==
    (bfs_ret.called /\ BfsNearest # {}) =>
        bfs_ret.position = Some(SetMin(BfsNearest))

\* C7 witness: the call was made with two destinations at the same least
\* distance, and the one chosen is not the first one of dst.
C7_Witness ==
    /\ bfs_ret.called
    /\ Cardinality(BfsNearest) >= 2
    /\ bfs_ret.position.tag = "Some"
    /\ bfs_ret.position.val # bfs_dst[1]

\* C8: the position returned is the least in reading order among the Open
\* neighbours of src that lie on a shortest path to the destination chosen
\* by the destination tie-break (the destination itself when adjacent).
C8_FirstStep ==
    (bfs_ret.called /\ BfsNearest # {}) =>
        bfs_ret.step = Some(SetMin(FirstSteps(board1, bfs_src, SetMin(BfsNearest))))

\* C8 witness: two nearest destinations, and a neighbour of src that starts
\* a shortest path to the one not chosen comes earlier in reading order
\* than the step returned.
C8_Witness ==
    /\ bfs_ret.called
    /\ bfs_ret.step.tag = "Some"
    /\ \E d \in BfsNearest :
        /\ d # SetMin(BfsNearest)
        /\ \E n \in FirstSteps(board1, bfs_src, d) : n < bfs_ret.step.val

\* C9: with a non-empty dst, bfs_step returns None exactly when no
\* destination is reachable from src, and Some position otherwise.
C9_NoneIffUnreachable ==
    bfs_ret.called =>
        /\ bfs_dst # <<>>
        /\ (bfs_ret.step.tag = "None") <=> (BfsNearest = {})
        /\ (bfs_ret.step.tag = "Some") <=> (BfsNearest # {})

\* C9 witness: a call that returned None although src has an Open
\* neighbour to step to.
C9_Witness ==
    /\ bfs_ret.called
    /\ bfs_ret.step = None
    /\ open_neighbors(board1, bfs_src) # <<>>

---------------------------------------------------------------------------
(* Units by id, for statements that follow a unit through its moves.       *)

IdsOf(units) == {units[p].id : p \in DOMAIN units}

PosOf(units, id) == CHOOSE p \in DOMAIN units : units[p].id = id

\* the board of the running battle after the step
CurNext == IF phase' = "part1" THEN board1' ELSE board2'

\* a step of next_round's for loop that starts at a snapshot entry
TurnTaken == InTurn /\ pc' # "call" /\ phase' = phase /\ idx' # idx

\* the enemies 4-adjacent to position p for a unit of `kind` on board b
AdjacentEnemies(b, p, kind) ==
    {q \in DOMAIN b.units : Adjacent4(b, p, q) /\ b.units[q].kind # kind}

\* the ids of the units of b that are gone or have less hp in nb
HurtIds(b, nb) ==
    {id \in IdsOf(b.units) :
        \/ id \notin IdsOf(nb.units)
        \/ nb.units[PosOf(nb.units, id)].hp < b.units[PosOf(b.units, id)].hp}

\* the adjacent enemy with the lowest hp, the first in reading order among
\* those with the lowest hp
LowestHpFirst(b, adj) ==
    CHOOSE q \in adj : \A r \in adj :
        \/ b.units[q].hp < b.units[r].hp
        \/ b.units[q].hp = b.units[r].hp /\ q <= r

\* the Elves of the parsed board
ElfIds(b) == {b.units[p].id : p \in {q \in DOMAIN b.units : b.units[q].kind = "Elf"}}

---------------------------------------------------------------------------
(* C1 - C6, C10: next_round and main.                                      *)

\* C1: the unit attacked in a turn is the enemy adjacent to the acting unit
\* (where it stands after its move) with the lowest hp, and among several
\* with the lowest hp the one first in reading order.
C1_AttackTarget ==
    [][TurnTaken =>
        LET actor == order[idx][2]
            kind == Cur.units[order[idx][1]].kind
            adj == AdjacentEnemies(Cur, PosOf(CurNext.units, actor), kind)
        IN  \A id \in HurtIds(Cur, CurNext) :
                PosOf(Cur.units, id) = LowestHpFirst(Cur, adj)]_vars

\* C2: when the sweep has printed its score and stopped, every Elf of the
\* parsed board is still on the board of the reported run.
C2_ReportedRunLostNoElf ==
    phase = "done" => ElfIds(orig_board) \subseteq IdsOf(board2.units)

\* C3: when no Elf died in the unboosted battle (boost 0, the first value
\* of the sweep), the score the sweep prints is the score of that battle.
C3_SweepStartsUnboosted ==
    (phase = "done" /\ ElfIds(orig_board) \subseteq IdsOf(board1.units)) =>
        out[2] = out[1]

\* C4: a living unit that starts its turn with no enemy left makes
\* next_round return false at once, with the board as it was; after that
\* return the battle's board is not touched and the round is not counted;
\* and the round counter goes up only after a round whose every snapshot
\* entry was processed.
C4_AbortedRoundNotCounted ==
    [][/\ (/\ InTurn
           /\ entry_alive(Cur, order[idx])
           /\ \A p \in DOMAIN Cur.units :
                Cur.units[p].kind = Cur.units[order[idx][1]].kind)
          => (pc' = "returned" /\ ret' = FALSE /\ idx' = idx /\ i' = i
              /\ board1' = board1 /\ board2' = board2)
       /\ (Running /\ pc = "returned" /\ ret = FALSE)
          => (i' # i + 1 /\ board1' = board1 /\ (phase = "sweep" => board2' = board2))
       /\ (i' = i + 1)
          => (pc = "returned" /\ ret = TRUE /\ idx = Len(order) + 1)]_vars

\* C4 witness: next_round returned false from the middle of the snapshot,
\* after rounds that were counted.
C4_Witness ==
    /\ pc = "returned" /\ ret = FALSE
    /\ idx < Len(order)
    /\ i > 0

\* C5: the units that took a turn in the round did so in increasing
\* reading order of the positions they held when the round started, each
\* at most once.
C5_TurnOrder ==
    \A j, k \in 1..Len(acted) :
        j < k => /\ acted[j] \in IdsOf(round_start)
                 /\ acted[k] \in IdsOf(round_start)
                 /\ PosOf(round_start, acted[j]) < PosOf(round_start, acted[k])

\* C5 witness: two units have taken their turns and now stand in the
\* opposite reading order, and a unit has died in the round.
C5_Witness ==
    /\ pc = "loop"
    /\ IdsOf(round_start) # IdsOf(Cur.units)
    /\ \E j, k \in 1..Len(acted) :
        /\ j < k
        /\ {acted[j], acted[k]} \subseteq IdsOf(Cur.units)
        /\ PosOf(Cur.units, acted[j]) > PosOf(Cur.units, acted[k])

\* C6: a turn is taken at a snapshot entry only by the unit the entry
\* names, which is then alive and has not had a turn in this round; an
\* entry whose unit is dead gives no turn to whoever stands on its position.
C6_DeadEntrySkipped ==
    [][(InTurn /\ acted' # acted) =>
        /\ order[idx][2] \in IdsOf(Cur.units)
        /\ ~Contains(acted, order[idx][2])
        /\ acted' = Append(acted, order[idx][2])]_vars

\* C6 witness: the loop is past the entry of a unit that died before its
\* turn, and on that entry's position stands a unit whose own entry came
\* earlier, so it had moved there before the dead unit's entry was reached.
C6_Witness ==
    /\ pc = "loop"
    /\ \E j, k \in 1..Len(order) :
        /\ j < k /\ k < idx
        /\ order[k][2] \notin IdsOf(Cur.units)
        /\ ~Contains(acted, order[k][2])
        /\ order[k][1] \in DOMAIN Cur.units
        /\ Cur.units[order[k][1]].id = order[j][2]
        /\ Contains(acted, order[j][2])
    /\ Cardinality(SeqSet(acted)) = Len(acted)

\* C10: in a turn only the acting unit changes position, and only if no
\* enemy was adjacent to it when the turn started; it then stands on a tile
\* 4-adjacent to the old one that was Open, the old tile is Open, and its
\* hp, attack, kind and id are what they were.
C10_MoveRule ==
    [][TurnTaken =>
        \A id \in IdsOf(Cur.units) \cap IdsOf(CurNext.units) :
            LET p == PosOf(Cur.units, id)
                q == PosOf(CurNext.units, id)
            IN  p # q =>
                    /\ id = order[idx][2]
                    /\ AdjacentEnemies(Cur, p, Cur.units[p].kind) = {}
                    /\ Adjacent4(Cur, p, q)
                    /\ Cur.tiles[q] = "Open"
                    /\ CurNext.tiles[p] = "Open"
                    /\ CurNext.tiles[q] = "Unit"
                    /\ CurNext.units[q] = Cur.units[p]]_vars

\* C10 witness: in this round a wounded unit has moved in its turn, and
\* another unit, with an enemy next to it, has had its turn and not moved.
C10_Witness ==
    /\ pc = "loop"
    /\ \E id \in SeqSet(acted) \cap IdsOf(Cur.units) :
        /\ PosOf(Cur.units, id) # PosOf(round_start, id)
        /\ Cur.units[PosOf(Cur.units, id)].hp < StartHp
    /\ \E id \in SeqSet(acted) \cap IdsOf(Cur.units) :
        /\ PosOf(Cur.units, id) = PosOf(round_start, id)
        /\ AdjacentEnemies(Cur, PosOf(Cur.units, id),
                           Cur.units[PosOf(Cur.units, id)].kind) # {}

---------------------------------------------------------------------------
(* C11 - C20: the board between turns, damage, the end of the battle and   *)
(* the score.                                                              *)

\* the boards main holds: the parsed one, the unboosted battle's and the
\* sweep run's (once the sweep has declared it)
Boards == {orig_board, board1} \cup (IF phase \in {"sweep", "done"} THEN {board2} ELSE {})

\* C11: on every board, between turns, a tile is Unit exactly when the
\* units map has an entry at its position; so every entry stands on a Unit
\* tile, none on a Wall or Open tile, and no two entries share an id.
C11_Occupancy ==
    \A b \in Boards :
        /\ DOMAIN b.units \subseteq DOMAIN b.tiles
        /\ \A p \in DOMAIN b.tiles : (b.tiles[p] = "Unit") <=> (p \in DOMAIN b.units)
        /\ Cardinality(IdsOf(b.units)) = Cardinality(DOMAIN b.units)

\* C11 witness: in the running round a unit has moved off its tile and a
\* unit has been killed, and units of both kinds are left.
C11_Witness ==
    /\ pc = "loop"
    /\ IdsOf(Cur.units) # IdsOf(round_start)
    /\ \E id \in IdsOf(Cur.units) : PosOf(Cur.units, id) # PosOf(round_start, id)
    /\ \E p, q \in DOMAIN Cur.units : Cur.units[p].kind # Cur.units[q].kind

\* the attack power of a unit of `kind` on board b: 3 for a Goblin, the
\* board's elf_attack for an Elf
PowerOf(b, kind) == IF kind = "Goblin" THEN 3 ELSE b.elf_attack

\* the kind of the unit whose turn the step is
ActorKind == Cur.units[order[idx][1]].kind

\* C12: a unit hit in a turn by an attack power that is at least its hp is
\* gone from the units map after that turn and the tile it stood on is
\* Open; a unit leaves the map in no other way, and never comes back in a
\* later turn.
C12_LethalRemoves ==
    [][TurnTaken =>
        /\ IdsOf(CurNext.units) \subseteq IdsOf(Cur.units)
        /\ \A id \in HurtIds(Cur, CurNext) :
            LET p == PosOf(Cur.units, id)
                lethal == Cur.units[p].hp <= PowerOf(Cur, ActorKind)
            IN  /\ lethal => /\ id \notin IdsOf(CurNext.units)
                             /\ p \notin DOMAIN CurNext.units
                             /\ CurNext.tiles[p] = "Open"
                /\ (id \notin IdsOf(CurNext.units)) => lethal]_vars

\* C12 witness: a unit was killed in this round before its own turn, and a
\* unit that has had its turn since then has moved onto the tile the dead
\* unit stood on.
C12_Witness ==
    /\ pc = "loop"
    /\ \E dead \in IdsOf(round_start) \ IdsOf(Cur.units) :
        LET p == PosOf(round_start, dead)
        IN  /\ ~Contains(acted, dead)
            /\ p \in DOMAIN Cur.units
            /\ Contains(acted, Cur.units[p].id)
            /\ PosOf(round_start, Cur.units[p].id) # p

\* C13: every unit in a units map has hp from 1 to 200; in a turn the hp
\* of a unit that stays in the map is either unchanged or lowered by
\* exactly the attack power of the acting unit, which was then less than
\* that hp (the subtraction does not underflow).
C13_HpRange ==
    /\ [](\A b \in Boards : \A p \in DOMAIN b.units :
            b.units[p].hp >= 1 /\ b.units[p].hp <= 200)
    /\ [][TurnTaken =>
            \A id \in IdsOf(Cur.units) \cap IdsOf(CurNext.units) :
                LET hp == Cur.units[PosOf(Cur.units, id)].hp
                    hp_next == CurNext.units[PosOf(CurNext.units, id)].hp
                IN  \/ hp_next = hp
                    \/ /\ hp_next = hp - PowerOf(Cur, ActorKind)
                       /\ hp > PowerOf(Cur, ActorKind)]_vars

\* C13 witness: in a sweep run a Goblin has survived the hits of a boosted
\* Elf with less hp left than the Elf's attack power.
C13_Witness ==
    /\ phase = "sweep" /\ pc = "loop"
    /\ board2.elf_attack > 3
    /\ \E p \in DOMAIN board2.units :
        /\ board2.units[p].kind = "Goblin"
        /\ board2.units[p].hp < board2.elf_attack
        /\ (200 - board2.units[p].hp) % board2.elf_attack = 0

\* the Open tiles 4-adjacent to a unit of the other kind
Destinations(b, kind) ==
    {t \in OpenTiles(b) : \E q \in DOMAIN b.units :
        b.units[q].kind # kind /\ Adjacent4(b, t, q)}

\* the destinations a unit of `kind` standing at p can reach over Open tiles
ReachableDestinations(b, p, kind) ==
    Destinations(b, kind) \cap DOMAIN DistFrom(b, p)

\* the unit the snapshot entry at idx names is alive and starts its turn
ActorAlive ==
    /\ InTurn
    /\ order[idx][1] \in DOMAIN Cur.units
    /\ Cur.units[order[idx][1]].id = order[idx][2]

\* C14: when the acting unit has no enemy 4-adjacent to it and can reach
\* no Open tile that is 4-adjacent to an enemy, its turn changes nothing:
\* every tile and every unit (position, hp, attack, kind, id) and the
\* casualty flag are as before, and the program goes on.
C14_NoAction ==
    [][(/\ ActorAlive
        /\ AdjacentEnemies(Cur, order[idx][1], ActorKind) = {}
        /\ ReachableDestinations(Cur, order[idx][1], ActorKind) = {})
       => (board1' = board1 /\ board2' = board2 /\ phase' = phase)]_vars

\* C14 witness: the unit that had the last turn has no enemy next to it,
\* has an Open tile next to it, and enemies have Open tiles next to them,
\* none of which it can reach.
C14_Witness ==
    /\ pc = "loop" /\ acted # <<>>
    /\ acted[Len(acted)] \in IdsOf(Cur.units)
    /\ LET p == PosOf(Cur.units, acted[Len(acted)])
           kind == Cur.units[p].kind
       IN  /\ AdjacentEnemies(Cur, p, kind) = {}
           /\ Destinations(Cur, kind) # {}
           /\ ReachableDestinations(Cur, p, kind) = {}
           /\ open_neighbors(Cur, p) # <<>>

\* the attack power main has set for the Elves of the running battle: 3 in
\* the unboosted battle, the sweep's `attack` (3 plus the boost) in a run
\* of the sweep
ElfPower == IF phase = "part1" THEN 3 ELSE attack

\* C15: a turn hurts at most one unit, an enemy of the acting unit; it
\* loses exactly 3 hp when a Goblin acts and exactly the Elf attack power
\* of the battle when an Elf acts, or is removed when it has no more hp
\* than that; every other unit keeps its position and fields, the acting
\* unit keeps its fields, and the tiles change only where the acting unit
\* moved and where the target died.
C15_Damage ==
    [][(TurnTaken /\ ActorAlive) =>
        LET actor == order[idx][2]
            power == IF ActorKind = "Goblin" THEN 3 ELSE ElfPower
            hurt == HurtIds(Cur, CurNext)
            from == order[idx][1]
            to == PosOf(CurNext.units, actor)
        IN  /\ Cardinality(hurt) <= 1
            /\ actor \in IdsOf(CurNext.units)
            /\ CurNext.units[to] = Cur.units[from]
            /\ CurNext.elf_attack = Cur.elf_attack
            /\ \A id \in IdsOf(Cur.units) \ (hurt \cup {actor}) :
                /\ PosOf(Cur.units, id) \in DOMAIN CurNext.units
                /\ CurNext.units[PosOf(Cur.units, id)] = Cur.units[PosOf(Cur.units, id)]
            /\ \A id \in hurt :
                LET p == PosOf(Cur.units, id)
                    unit == Cur.units[p]
                IN  /\ unit.kind # ActorKind
                    /\ Adjacent4(Cur, to, p)
                    /\ IF id \in IdsOf(CurNext.units)
                       THEN CurNext.units[p] = [unit EXCEPT !.hp = unit.hp - power]
                       ELSE unit.hp <= power
            /\ \A t \in DOMAIN Cur.tiles :
                CurNext.tiles[t] # Cur.tiles[t] =>
                    \/ t \in {from, to}
                    \/ \E id \in hurt : t = PosOf(Cur.units, id)]_vars

\* C15 witness: in a run of the sweep with a boost of at least 2, an Elf
\* has been hit by Goblins only in steps of 3 and a Goblin by Elves only in
\* steps of the boosted attack power, which is no multiple of 3 hp in all.
C15_Witness ==
    /\ phase = "sweep" /\ pc = "loop"
    /\ attack >= 5
    /\ \E p \in DOMAIN board2.units :
        /\ board2.units[p].kind = "Elf"
        /\ board2.units[p].hp < 200
        /\ (200 - board2.units[p].hp) % 3 = 0
    /\ \E p \in DOMAIN board2.units :
        /\ board2.units[p].kind = "Goblin"
        /\ board2.units[p].hp < 200
        /\ (200 - board2.units[p].hp) % attack = 0
        /\ (200 - board2.units[p].hp) % 3 # 0

\* the kinds of the units on board b
KindsOf(b) == {b.units[p].kind : p \in DOMAIN b.units}

\* no unit of b can act: there is no unit, or both kinds are there and no
\* unit has an enemy 4-adjacent to it or can reach an Open tile next to one
Stuck(b) ==
    \/ DOMAIN b.units = {}
    \/ /\ Cardinality(KindsOf(b)) = 2
       /\ \A p \in DOMAIN b.units :
            /\ AdjacentEnemies(b, p, b.units[p].kind) = {}
            /\ ReachableDestinations(b, p, b.units[p].kind) = {}

\* next_round has returned false
BattleEnded == Running /\ pc = "returned" /\ ret = FALSE

\* the sweep drops the run: next_round returned true with an Elf dead
RunAbandoned == phase = "sweep" /\ pc = "returned" /\ board2.elf_casualty

ElfCount(b) == Cardinality({p \in DOMAIN b.units : b.units[p].kind = "Elf"})

\* C17: when the sweep stops, it stops at a run whose battle is complete
\* (next_round returned false) and in which no Elf died: the board of the
\* run has as many Elves as the parsed board and its casualty flag is not
\* set.
C17_SweepStopsAtNoElfDeath ==
    phase = "done" =>
        /\ pc = "returned" /\ ret = FALSE
        /\ ElfCount(board2) = ElfCount(orig_board)
        /\ ~board2.elf_casualty

\* C18: next_round returns false only from the turn of a living unit that
\* finds no unit of the other kind; that step changes no board, and the
\* units left when it has returned false are all of one kind.
C18_TerminalCondition ==
    /\ [][(Running /\ pc # "returned" /\ pc' = "returned" /\ ret' = FALSE) =>
            /\ ActorAlive
            /\ \A p \in DOMAIN Cur.units : Cur.units[p].kind = ActorKind
            /\ board1' = board1 /\ board2' = board2
            /\ phase' = phase]_vars
    /\ [](BattleEnded => Cardinality(KindsOf(Cur)) <= 1)

\* C18 witness: next_round has returned false in a round in which a unit
\* died, from the turn of a unit that is not the first of the snapshot,
\* with two or more units left.
C18_Witness ==
    /\ BattleEnded
    /\ idx > 1
    /\ IdsOf(Cur.units) # IdsOf(round_start)
    /\ Cardinality(DOMAIN Cur.units) >= 2

\* the hp of the units standing on the tiles 0 .. n - 1 of b, added up in
\* reading order
RECURSIVE HpUpTo(_, _)
HpUpTo(b, n) ==
    IF n = 0 THEN 0
    ELSE HpUpTo(b, n - 1) + (IF (n - 1) \in DOMAIN b.units THEN b.units[n - 1].hp ELSE 0)

HpTotal(b) == HpUpTo(b, Cardinality(DOMAIN b.tiles))

\* C19: the round counter of a battle starts at 0, goes up by one after
\* every call of next_round that returned true in a run main keeps, and
\* changes in no other way while the battle runs; when next_round returns
\* false main reports that counter times the sum of the hp of the units
\* then in the units map, and reports nothing at any other time.
C19_FinalScore ==
    [][/\ (Running /\ pc = "returned" /\ ret = TRUE /\ ~RunAbandoned)
            => (i' = i + 1 /\ CurNext = Cur /\ phase' = phase)
       /\ (i' # i)
            => \/ Running /\ pc = "returned" /\ ret = TRUE /\ i' = i + 1
               \/ /\ i' = 0 /\ phase' = "sweep"
                  /\ board2' = [orig_board EXCEPT !.elf_attack = attack']
       /\ BattleEnded => out' = Append(out, i * HpTotal(Cur))
       /\ (out' # out) => BattleEnded]_vars

\* C19 witness: both battles reported have ended after counted rounds with
\* hp left, and with different scores.
C19_Witness ==
    /\ phase = "done"
    /\ i > 0
    /\ out[1] > 0 /\ out[2] > 0
    /\ out[1] # out[2]
    /\ Cardinality(DOMAIN board1.units) >= 2

\* C20: on the 7x7 reference grid, unboosted, next_round returns false
\* after exactly 47 rounds that returned true, the hp left add up to 590,
\* and the score reported is 27730.
C20_ReferenceCase ==
    input = MapSample =>
        /\ (phase = "part1" /\ BattleEnded) => (i = 47 /\ HpTotal(board1) = 590)
        /\ phase = "part1" => i <= 47
        /\ Len(out) >= 1 => out[1] = 27730

\* C20 witness: the battle on the reference grid has ended with four
\* Goblins left, its score has been reported and the sweep is to start.
C20_Witness ==
    /\ input = MapSample
    /\ Len(out) >= 1
    /\ i = 0 /\ phase = "sweep" /\ pc = "call"
    /\ KindsOf(board1) = {"Goblin"}
    /\ Cardinality(DOMAIN board1.units) = 4

---------------------------------------------------------------------------
(* C21 - C30.                                                              *)

PositionsOf(bytes, set) ==
    {TileOf(bytes, k) : k \in {j \in 1..Len(bytes) : bytes[j] \in set}}

\* C22: the parsed board holds a unit of 200 hp wherever the input has an
\* E or a G, with elf_casualty false, and never changes; every battle (the
\* unboosted one and every run of the sweep) starts from that board with
\* only elf_attack set to the run's attack power; the sweep neither reads
\* nor writes the board of the unboosted battle.
C22_Independence ==
    /\ [](Running =>
            /\ DOMAIN orig_board.units = PositionsOf(input, {"E", "G"})
            /\ \A p \in DOMAIN orig_board.units :
                /\ orig_board.units[p].hp = 200
                /\ orig_board.units[p].kind = "Elf" <=> p \in PositionsOf(input, {"E"})
            /\ ~orig_board.elf_casualty
            /\ orig_board.elf_attack = 3)
    /\ []((Running /\ pc = "call" /\ i = 0) =>
            Cur = [orig_board EXCEPT !.elf_attack = attack])
    /\ [][/\ orig_board' = orig_board
          /\ phase # "part1" => board1' = board1
          /\ phase' = "part1" => board2' = board2]_vars

\* C22 witness: a run of the sweep starts after the unboosted battle and
\* two earlier runs of the sweep have changed their boards.
C22_Witness ==
    /\ phase = "sweep" /\ pc = "call" /\ i = 0
    /\ attack >= 6
    /\ board1 # orig_board
    /\ board1.elf_casualty

\* the rows of the input: the bytes between newlines, and the bytes after
\* the last newline when there are any
RECURSIVE SplitRows(_, _)
SplitRows(bytes, row) ==
    IF bytes = <<>> THEN (IF row = <<>> THEN <<>> ELSE <<row>>)
    ELSE IF Head(bytes) = "\n" THEN <<row>> \o SplitRows(Tail(bytes), <<>>)
    ELSE SplitRows(Tail(bytes), Append(row, Head(bytes)))

RowsOf(bytes) == SplitRows(bytes, <<>>)

SameWidth(rows) == \A j, k \in 1..Len(rows) : Len(rows[j]) = Len(rows[k])

\* every tile of the first and last row and column is a wall
WallBordered(rows) ==
    \A r \in 1..Len(rows) : \A c \in 1..Len(rows[r]) :
        (r \in {1, Len(rows)} \/ c \in {1, Len(rows[r])}) => rows[r][c] = "#"

\* C23: once from_bytes has returned, an input whose rows are not all of
\* the same width has been rejected with an error.
C23_RaggedRejected ==
    (phase # "start" /\ ~SameWidth(RowsOf(input))) => phase = "error"

\* C24: once from_bytes has returned, a rectangular input with a tile on
\* its border that is not a wall has been rejected with an error, and on a
\* rectangular input no tile read of the first turn panics.
C24_BorderAsserted ==
    (phase # "start" /\ SameWidth(RowsOf(input))) =>
        /\ ~WallBordered(RowsOf(input)) => phase = "error"
        /\ phase # "panic"

\* The search of bfs_step without the early stop: every tile that can be
\* reached gets its distance before anything is chosen.
RECURSIVE explore_all(_, _, _)
explore_all(b, distances, horizon) ==
    IF horizon = <<>> THEN distances
    ELSE
        LET distance == Head(horizon)[1]
            pos == Head(horizon)[2]
            on == open_neighbors(b, pos)
        IN  IF distance >= distances[pos]
            THEN explore_all(b, distances, Tail(horizon))
            ELSE explore_all(b, [distances EXCEPT ![pos] = distance],
                             Tail(horizon) \o [k \in 1..Len(on) |-> <<distance + 1, on[k]>>])

\* bfs_step on the distances of explore_all: the least distance of a
\* destination, the least destination at that distance, and the walk back
\* from it
bfs_step_exhaustive(b, src, dst) ==
    LET distances == explore_all(b, [p \in DOMAIN b.tiles |-> UsizeMax], <<<<0, src>>>>)
        least == SetMin({distances[d] : d \in SeqSet(dst)})
        position == SetMin({d \in SeqSet(dst) : distances[d] = least})
    IN  IF least = UsizeMax THEN None
        ELSE LET positions == bfs_walk_back(b, distances, <<position>>, least)
             IN  IF positions = <<>> THEN Panic ELSE Some(positions[1])

\* C25: for a non-empty dst, bfs_step returns what the search without the
\* early stop returns.
C25_EarlyStopEquivalent ==
    bfs_ret.called =>
        /\ bfs_dst # <<>>
        /\ bfs_ret.step = bfs_step_exhaustive(board1, bfs_src, bfs_dst)

\* C25 witness: bfs_step returned a step although the early stop left a
\* destination and other Open tiles that can be reached without a
\* distance, with two destinations at the least distance.
C25_Witness ==
    /\ bfs_ret.called
    /\ bfs_ret.step.tag = "Some"
    /\ Cardinality(BfsNearest) >= 2
    /\ LET found == bfs_search(board1, bfs_src, bfs_dst)
           dist == DistFrom(board1, bfs_src)
       IN  /\ \E d \in SeqSet(bfs_dst) \cap DOMAIN dist :
                found.distances[d] = UsizeMax
           /\ \E t \in DOMAIN dist \ SeqSet(bfs_dst) :
                dist[t] > found.max_distance /\ found.distances[t] = UsizeMax

\* the snapshot entries from idx on all name units that are dead
RestDead ==
    \A k \in idx..Len(order) : order[k][2] \notin IdsOf(Cur.units)

\* C26: when the last enemy has been killed in a round and no living unit
\* has a turn left in it, next_round returns true; main counts that round
\* (unless the sweep drops the run for a dead Elf); and the call after it
\* returns false from the turn of its first snapshot entry.
C26_LastKillRoundCounted ==
    /\ [][(/\ Running /\ pc = "loop"
           /\ Cardinality(KindsOf(Cur)) = 1
           /\ Cardinality({round_start[p].kind : p \in DOMAIN round_start}) = 2
           /\ RestDead)
          => (board1' = board1 /\ board2' = board2
              /\ (pc' = "returned" => ret' = TRUE))]_vars
    /\ [][(/\ Running /\ pc = "returned" /\ ret = TRUE
           /\ Cardinality(KindsOf(Cur)) = 1
           /\ ~RunAbandoned)
          => (i' = i + 1 /\ pc' = "call")]_vars
    /\ []((/\ BattleEnded
           /\ Cardinality({round_start[p].kind : p \in DOMAIN round_start}) = 1
           /\ i > 0)
          => (idx = 1 /\ Len(acted) = 1 /\ Cur.units = round_start))

\* C26 witness: next_round has returned false from the first turn of a
\* round, after a counted round in which the last enemy was killed by the
\* unit that had the last turn.
C26_Witness ==
    /\ BattleEnded
    /\ idx = 1
    /\ i > 0
    /\ Cardinality(DOMAIN Cur.units) >= 2
    /\ Cur.units = round_start

\* C27: in the turn of a living unit the unit ends on its old tile or on a
\* tile 4-adjacent to it (at most one move); at most one unit is hurt (at
\* most one attack) and it is an enemy 4-adjacent to the tile the unit
\* ends on; when an enemy is 4-adjacent to that tile, an enemy is hurt in
\* this same turn, also when the unit has just moved there.
C27_MoveThenAttack ==
    [][(TurnTaken /\ ActorAlive) =>
        LET from == order[idx][1]
            to == PosOf(CurNext.units, order[idx][2])
            hurt == HurtIds(Cur, CurNext)
        IN  /\ (to = from \/ Adjacent4(Cur, from, to))
            /\ Cardinality(hurt) <= 1
            /\ \A id \in hurt :
                PosOf(Cur.units, id) \in AdjacentEnemies(Cur, to, ActorKind)
            /\ (AdjacentEnemies(Cur, to, ActorKind) # {}) => hurt # {}
            /\ (to # from) => AdjacentEnemies(Cur, from, ActorKind) = {}]_vars

\* C27 witness: the one unit that has had its turn in this round has
\* moved, and an enemy now next to it, which was not next to it before, has
\* lost hp in that turn.
C27_Witness ==
    /\ pc = "loop" /\ Len(acted) = 1
    /\ acted[1] \in IdsOf(Cur.units)
    /\ LET to == PosOf(Cur.units, acted[1])
           from == PosOf(round_start, acted[1])
       IN  /\ to # from
           /\ \E q \in DOMAIN Cur.units :
                /\ Adjacent4(Cur, to, q)
                /\ ~Adjacent4(Cur, from, q)
                /\ Cur.units[q].kind # Cur.units[to].kind
                /\ q \in DOMAIN round_start
                /\ Cur.units[q].hp < round_start[q].hp

\* the four tile indices around p, from rows and columns
Around(b, p) == {p - b.width, p - 1, p + 1, p + b.width}

\* C28: the program never panics.  At the start of the turn of a living
\* unit every tile index read around the unit and around its enemies is
\* inside the tile vector; when the unit has no enemy next to it and there
\* is a destination, bfs_step finds a destination to choose and a first
\* step or None; and after the turn the unit is in the units map, on a
\* tile that is a Unit tile.
C28_NoPanic ==
    /\ [](phase # "panic")
    /\ [](ActorAlive =>
            /\ \A p \in DOMAIN Cur.units : Around(Cur, p) \subseteq DOMAIN Cur.tiles
            /\ (/\ AdjacentEnemies(Cur, order[idx][1], ActorKind) = {}
                /\ Destinations(Cur, ActorKind) # {})
               => /\ bfs_position(TurnDst, bfs_search(Cur, TurnPos, TurnDst)).tag = "Some"
                  /\ TurnStep.tag \in {"Some", "None"})
    /\ [][(TurnTaken /\ ActorAlive) =>
            /\ order[idx][2] \in IdsOf(CurNext.units)
            /\ CurNext.tiles[PosOf(CurNext.units, order[idx][2])] = "Unit"]_vars

\* C28 witness: a living unit with no enemy next to it starts its turn;
\* there are destinations and it can reach none of them, so bfs_step
\* chooses among destinations that have no distance and returns None.
C28_Witness ==
    /\ ActorAlive
    /\ AdjacentEnemies(Cur, order[idx][1], ActorKind) = {}
    /\ Destinations(Cur, ActorKind) # {}
    /\ ReachableDestinations(Cur, order[idx][1], ActorKind) = {}
    /\ TurnStep = None

\* C29: on every board main holds, elf_casualty is set exactly when the
\* board has fewer Elves than the parsed board; within a run the flag,
\* once set, stays set; and it goes from false to true only in a turn that
\* removes an Elf.
C29_CasualtyTracking ==
    /\ [](\A b \in Boards : b.elf_casualty <=> ElfCount(b) < ElfCount(orig_board))
    /\ [][(Running /\ phase' = phase /\ attack' = attack) =>
            /\ Cur.elf_casualty => CurNext.elf_casualty
            /\ (~Cur.elf_casualty /\ CurNext.elf_casualty) =>
                    (TurnTaken /\ ElfCount(CurNext) = ElfCount(Cur) - 1)]_vars

\* C29 witness: in a run of the sweep a Goblin has been killed and the flag
\* is not set, while the unboosted battle has lost an Elf after killing a
\* Goblin and has its flag set.
C29_Witness ==
    /\ phase = "sweep"
    /\ ~board2.elf_casualty
    /\ Cardinality(DOMAIN board2.units) < Cardinality(DOMAIN orig_board.units)
    /\ board1.elf_casualty
    /\ Cardinality(DOMAIN board1.units) < Cardinality(DOMAIN orig_board.units) - 1

\* C30: the sweep leaves an attack power for the next one only when
\* next_round has just returned true (a completed round) with elf_casualty
\* set, in a run that has lost an Elf; it moves to the next power only, and
\* it prints only for a run without an abandoned power after it.
C30_SkipSound ==
    [][(phase = "sweep" /\ attack' # attack) =>
          /\ pc = "returned" /\ ret = TRUE
          /\ idx = Len(order) + 1
          /\ board2.elf_casualty
          /\ ElfCount(board2) < ElfCount(orig_board)
          /\ attack' = attack + 1
          /\ phase' = "sweep"]_vars

\* C30 witness: a second power is about to be abandoned, after the round
\* that lost the Elf was completed.
C30_Witness ==
    /\ RunAbandoned
    /\ ret = TRUE
    /\ attack > FirstSweepAttack
    /\ ElfCount(board2) < ElfCount(orig_board)

===========================================================================
